---- MODULE Spec2Model ----
(***************************************************************************)
(* The trust-boundary network mediation layer of the enclave platform:     *)
(*   - the in-enclave egress broker   (data-plane/src/dns/egressproxy.rs)  *)
(*   - the host ingress bridge        (control-plane/src/main.rs)          *)
(*   - the crypto API facade and E3   (data-plane/src/crypto/api.rs,       *)
(*     client                          data-plane/src/e3client/mod.rs)     *)
(*                                                                         *)
(* A byte stream is a sequence of tokens <<kind, value, n>>; one token     *)
(* stands for one unit of the wire.  A TLS record is a header token that   *)
(* declares how many tokens follow in the record, so that a record cut     *)
(* short by a partial read is recognisably incomplete.                     *)
(***************************************************************************)
EXTENDS Integers, Sequences, FiniteSets, TLC

(***************************************************************************)
(* Bounds of the model.                                                    *)
(***************************************************************************)
MaxAppBytes == 2        \* customer bytes that follow the ClientHello

(***************************************************************************)
(* Program constants.                                                      *)
(***************************************************************************)
BufSize == 4096         \* vec![0u8; 4096]

Hostnames == {"a.com", "b.com"}
IPs == {"1.1.1.1", "2.2.2.2"}

Min(a, b) == IF a < b THEN a ELSE b

IsPrefix(s, t) == Len(s) <= Len(t) /\ SubSeq(t, 1, Len(s)) = s

Drop(s, n) == SubSeq(s, n + 1, Len(s))

(***************************************************************************)
(* Option<T>                                                               *)
(***************************************************************************)
Some(v) == [some |-> TRUE, val |-> v]
NoIps == [some |-> FALSE, val |-> {}]

(***************************************************************************)
(* Wire tokens.                                                            *)
(***************************************************************************)
Tok(k, v, n) == <<k, v, n>>

\* `k` application bytes, pairwise distinct
App(k) == [i \in 1..k |-> Tok("app", "x", i)]

Name(h) == Tok("name", h, 0)          \* an SNI host name, valid UTF-8
BadName == Tok("badname", "", 0)      \* an SNI host name that is not UTF-8
OtherExt == <<Tok("oext", "", 0)>>    \* an extension other than SNI
BadExt == <<Tok("badext", "", 0)>>    \* a malformed extension
Sni(names) == <<Tok("sni", "", Len(names))>> \o names

\* a TLS record holding a ClientHello with the extension block `exts`
ClientHello(exts) ==
    <<Tok("rec", "ch", 1 + Len(exts)), Tok("exts", "", Len(exts))>> \o exts
\* a ClientHello that carries no extension block at all
ClientHelloNoExt == <<Tok("rec", "ch", 0)>>
\* a TLS record whose first message is not a ClientHello
OtherRecord == <<Tok("rec", "other", 0)>>
\* bytes that are no TLS record
Junk == <<Tok("junk", "", 0)>>

Hellos == {
    ClientHello(Sni(<<Name("a.com")>>)),
    ClientHello(Sni(<<Name("b.com")>>)),
    ClientHello(Sni(<<Name("a.com"), Name("b.com")>>)),
    ClientHello(Sni(<<Name("b.com")>>) \o OtherExt \o Sni(<<Name("a.com")>>)),
    ClientHello(Sni(<<Name("a.com"), BadName>>)),
    ClientHello(Sni(<<Name("")>>)),
    ClientHello(OtherExt),
    ClientHello(BadExt),
    ClientHelloNoExt,
    OtherRecord,
    Junk }

\* what a customer may send on one connection
Wires == {h \o App(MaxAppBytes) : h \in Hellos} \cup {<<>>}

\* the same kinds of stream, one of each outcome, for the runs with several
\* connections in flight
FewWires == { ClientHello(Sni(<<Name("a.com")>>)),
              ClientHelloNoExt,
              Junk }

(***************************************************************************)
(* tls_parser, as far as get_hostname uses it.                             *)
(***************************************************************************)
\* parse_tls_plaintext(&data).finish(): Incomplete makes finish() panic
parse_tls_plaintext(data) ==
    IF data = <<>> THEN [tag |-> "Incomplete"]
    ELSE IF data[1][1] # "rec" THEN [tag |-> "Error"]
    ELSE IF Len(data) - 1 < data[1][3] THEN [tag |-> "Incomplete"]
    ELSE LET body == SubSeq(data, 2, data[1][3] + 1) IN
         IF data[1][2] # "ch" THEN [tag |-> "Ok", msg |-> "other"]
         ELSE IF body = <<>> THEN [tag |-> "Ok", msg |-> "ch", ext |-> [some |-> FALSE, val |-> <<>>]]
         ELSE IF body[1][1] # "exts" \/ body[1][3] # Len(body) - 1 THEN [tag |-> "Error"]
         ELSE [tag |-> "Ok", msg |-> "ch", ext |-> Some(Tail(body))]

\* parse_tls_extensions(raw_extensions).finish()
RECURSIVE parse_tls_extensions(_)
parse_tls_extensions(raw) ==
    IF raw = <<>> THEN [tag |-> "Ok", exts |-> <<>>]
    ELSE LET hd == raw[1]
             k == IF hd[1] = "sni" THEN hd[3] ELSE 0
         IN  IF hd[1] \notin {"sni", "oext"} \/ Len(raw) - 1 < k
               \/ \E i \in 2..(k + 1) : raw[i][1] \notin {"name", "badname"}
             THEN [tag |-> "Error"]
             ELSE LET rest == parse_tls_extensions(Drop(raw, k + 1)) IN
                  IF rest.tag = "Error" THEN rest
                  ELSE [tag |-> "Ok",
                        exts |-> <<[type |-> hd[1], names |-> SubSeq(raw, 2, k + 1)]>> \o rest.exts]

\* faulty variant: a host name once found is kept
RECURSIVE sni_names_first(_, _)
sni_names_first(names, destination) ==
    IF names = <<>> THEN destination
    ELSE sni_names_first(Tail(names),
                         IF names[1][1] = "name" /\ destination = ""
                         THEN names[1][2] ELSE destination)

\* the for loops of get_hostname: `destination` is overwritten by every SNI
\* host name that is valid UTF-8
RECURSIVE sni_names(_, _)
sni_names(names, destination) ==
    IF names = <<>> THEN destination
    ELSE sni_names(Tail(names),
                   IF names[1][1] = "name" THEN names[1][2] ELSE destination)

RECURSIVE sni_extensions(_, _)
sni_extensions(extensions, destination) ==
    IF extensions = <<>> THEN destination
    ELSE sni_extensions(Tail(extensions),
                        IF extensions[1].type = "sni"
                        THEN sni_names(extensions[1].names, destination)
                        ELSE destination)

\* EgressProxy::get_hostname: Ok(Some(h)), Ok(None), Err(TlsParseError), or a
\* panic of the task
get_hostname(data) ==
    LET parsed_request == parse_tls_plaintext(data) IN
    IF parsed_request.tag = "Incomplete" THEN [tag |-> "Panic", val |-> ""]
    ELSE IF parsed_request.tag = "Error" THEN [tag |-> "TlsParseError", val |-> ""]
    ELSE IF parsed_request.msg # "ch" THEN [tag |-> "None", val |-> ""]
    ELSE IF ~parsed_request.ext.some THEN [tag |-> "None", val |-> ""]
    ELSE LET extensions == parse_tls_extensions(parsed_request.ext.val) IN
         IF extensions.tag = "Error" THEN [tag |-> "TlsParseError", val |-> ""]
         ELSE [tag |-> "Some", val |-> sni_extensions(extensions.exts, "")]

(***************************************************************************)
(* ExternalRequest{ip, data}.to_bytes(): a length-prefixed frame.          *)
(***************************************************************************)
to_bytes(ip, data) == <<Tok("frame", ip, Len(data))>> \o data

(***************************************************************************)
(* The DNS cache: hostname -> the answer set last stored for it.           *)
(***************************************************************************)
AnswerSets == SUBSET IPs

EmptyCache == [h \in Hostnames |-> NoIps]

\* Cache::get_ip(hostname)
get_ip(c, hostname) == IF hostname \in DOMAIN c THEN c[hostname] ELSE NoIps

(***************************************************************************)
(* A duplex stream as the proxy holds it.                                  *)
(*   in      bytes the peer has still to deliver to the proxy              *)
(*   eof     the peer's close has arrived, behind all of its bytes         *)
(*   out     bytes the proxy has written to the peer                       *)
(*   wr_shut the proxy has shut down its write side                        *)
(***************************************************************************)
Stream(in) == [open |-> TRUE, in |-> in, eof |-> FALSE, out |-> <<>>, wr_shut |-> FALSE]
NoStream == [open |-> FALSE, in |-> <<>>, eof |-> FALSE, out |-> <<>>, wr_shut |-> FALSE]

\* a stream the proxy has dropped: what it wrote stays written
Dropped(s) == [s EXCEPT !.open = FALSE, !.in = <<>>, !.eof = FALSE]

\* what the peer of a dialed channel may answer
Replies == {<<>>, <<Tok("app", "r", 1)>>}

(***************************************************************************)
(* shared::utils::pipe_streams(a, b): the successors of the pair of        *)
(* streams under one step of the splicer.  `done` is set when it returns.  *)
(***************************************************************************)
pipe_streams(a, b) ==
    \* copy one unit a -> b
    (IF a.in # <<>>
     THEN {[a |-> [a EXCEPT !.in = Tail(@)], b |-> [b EXCEPT !.out = Append(@, Head(a.in))],
            done |-> FALSE, res |-> ""]}
     ELSE {})
    \cup
    \* copy one unit b -> a
    (IF b.in # <<>>
     THEN {[a |-> [a EXCEPT !.out = Append(@, Head(b.in))], b |-> [b EXCEPT !.in = Tail(@)],
            done |-> FALSE, res |-> ""]}
     ELSE {})
    \cup
    \* a reached EOF: half-close b's write side and return
    (IF a.in = <<>> /\ a.eof
     THEN {[a |-> a, b |-> [b EXCEPT !.wr_shut = TRUE], done |-> TRUE, res |-> "Ok"]}
     ELSE {})
    \cup
    \* b reached EOF: half-close a's write side and return
    (IF b.in = <<>> /\ b.eof
     THEN {[a |-> [a EXCEPT !.wr_shut = TRUE], b |-> b, done |-> TRUE, res |-> "Ok"]}
     ELSE {})
    \cup
    \* a read or a write fails
    {[a |-> a, b |-> b, done |-> TRUE, res |-> "Io"]}

(***************************************************************************)
(* State.                                                                  *)
(***************************************************************************)
VARIABLES
    cache,            \* the DNS cache
    egress_listener,  \* EgressProxy::listen: "Binding", "Listening", "BindFailed"
    egress,           \* per egress connection: the task of handle_egress_connection
    ingress_listener, \* tcp_server: "Binding", "Listening", "BindFailed"
    ingress,          \* per ingress connection: the task spawned by tcp_server
    env_context,      \* the tenant context the environment of the data plane gives
    crypto_listener,  \* CryptoApi::listen: "Starting", "Listening", "BindFailed"
    requests,         \* per request to the facade: the future of CryptoApi::api
    e3_calls,         \* per call of the E3 client by the data plane: its inputs and result
    environ,          \* EGRESS_PORTS and EGRESS_ALLOW_LIST in the data plane's environment
    config            \* what get_egress_ports and get_egress_allow_list returned

egress_vars == <<cache, egress_listener, egress>>
ingress_vars == <<ingress_listener, ingress>>
crypto_vars == <<env_context, crypto_listener, requests>>
e3_vars == <<e3_calls>>
config_vars == <<environ, config>>
vars == <<egress_vars, ingress_vars, crypto_vars, e3_vars, config_vars>>

Reqs == {1, 2}

IConns == {1, 2}

EConns == {1, 2}

\* a connection not yet accepted
EgressIdle ==
    [pc |-> "Idle",
     wire |-> <<>>,                    \* all bytes the customer sends on it
     external_stream |-> NoStream,
     customer_data |-> <<>>,
     n |-> 0,
     hostname |-> "",
     cached_ips |-> NoIps,
     lookup |-> FALSE,                 \* Cache::get_ip was called
     cache_seen |-> NoIps,             \* the cache's entry for the SNI host name at the lookup
     remote_ip |-> "",
     dial |-> "",                      \* "Ok" or "Err", once get_listener() ran
     data_plane_stream |-> NoStream,
     result |-> ""]

\* a connection not yet accepted
IngressIdle ==
    [pc |-> "Idle",
     wire |-> <<>>,                    \* all bytes the client sends on it
     connection |-> NoStream,
     enclave_stream |-> NoStream,
     dial |-> "",                      \* "Ok" or "Err", once dialed
     shutdown |-> "",                  \* "Ok" or "Err", once connection.shutdown() ran
     piped |-> FALSE,                  \* pipe_streams was invoked
     result |-> ""]

\* Option<CageContext>
NoContext == [some |-> FALSE, val |-> [team_uuid |-> "", app_uuid |-> ""]]
Contexts == {NoContext, Some([team_uuid |-> "team_1", app_uuid |-> "app_1"])}

NoKey == [some |-> FALSE, val |-> ""]
\* E3Payload { data: Option<&Value>, context: &CageContext }
NoData == [some |-> FALSE, val |-> ""]
NoPayload == [data |-> NoData, context |-> NoContext.val]
\* the JSON object of a request body
NoBody == [data |-> "", team_uuid |-> "", app_uuid |-> ""]
NoRequest == [sent |-> FALSE, path |-> "", api_key |-> "", body |-> NoBody]
NoResponse == [kind |-> "None", status |-> 0, body |-> ""]

\* a request not yet received
RequestIdle ==
    [pc |-> "Idle",
     method |-> "", path |-> "",
     api_key |-> NoKey,                \* the api-key header of the request
     body |-> "",                      \* its body
     key |-> "", payload |-> NoPayload, \* what build_request returned
     e3_conn |-> FALSE,                \* a connection to E3 was opened
     e3_request |-> NoRequest,         \* the request E3 received
     e3_status |-> 0,                  \* the status E3 answered with
     err |-> "",                       \* the error `api` returned
     response |-> NoResponse]          \* what the client got

\* calls of the E3 client made by the data plane
Calls == {1}

\* what the E3 server does with a call: no outcome yet
NoOutcome == [kind |-> "None", status |-> 0, body |-> ""]
\* what a method of the E3 client returned: nothing yet
NoResult == [tag |-> "None", bool |-> FALSE, json |-> "", status |-> 0,
             request |-> NoRequest, decoded |-> FALSE]

\* a call not yet made
CallIdle ==
    [pc |-> "Idle", op |-> "", api_key |-> "", payload |-> NoPayload,
     outcome |-> NoOutcome, result |-> NoResult]

\* a variable of the environment: unset, or set to a string, which is the
\* sequence of its characters
NoVar == [some |-> FALSE, val |-> <<>>]
NoEnviron == [EGRESS_PORTS |-> NoVar, EGRESS_ALLOW_LIST |-> NoVar]
\* the configuration is not read yet
NotRead == [tag |-> "NotRead", val |-> <<>>]
Unread == [egress_ports |-> NotRead, egress_allow_list |-> NotRead]

Init ==
    /\ cache = EmptyCache
    /\ egress_listener = "Binding"
    /\ egress = [c \in EConns |-> EgressIdle]
    /\ ingress_listener = "Binding"
    /\ ingress = [c \in IConns |-> IngressIdle]
    /\ env_context = NoContext
    /\ crypto_listener = "Starting"
    /\ requests = [r \in Reqs |-> RequestIdle]
    /\ e3_calls = [i \in Calls |-> CallIdle]
    /\ environ = NoEnviron
    /\ config = Unread

(***************************************************************************)
(* The DNS forwarder stores the answer set of a resolution.                *)
(***************************************************************************)
CacheWrite(H, A) ==
    /\ \E h \in H, ips \in A :
          cache' = [cache EXCEPT ![h] = Some(ips)]
    /\ UNCHANGED <<egress_listener, egress, ingress_vars, crypto_vars, e3_vars, config_vars>>

(***************************************************************************)
(* EgressProxy::listen                                                     *)
(***************************************************************************)
\* faulty variant: the loop awaits the handler itself and `?` returns its error
spawned_result_propagated(listener, res) ==
    IF res \in {"Ok", ""} THEN listener ELSE "Stopped"

\* tokio::spawn(handle_egress_connection(stream)): the task's result is
\* dropped with its JoinHandle; the listener's loop goes on whatever it is
spawned_result(listener, res) == listener

EgressBind ==
    /\ egress_listener = "Binding"
    /\ egress_listener' \in {"Listening", "BindFailed"}
    /\ UNCHANGED <<cache, egress, ingress_vars, crypto_vars, e3_vars, config_vars>>

\* the task of connection c ends with `res`, dropping both streams
EgressEnd(c, rec, res) ==
    /\ egress' = [egress EXCEPT ![c] =
                     [rec EXCEPT !.pc = "Closed", !.result = res,
                                 !.external_stream = Dropped(@),
                                 !.data_plane_stream = Dropped(@)]]
    /\ egress_listener' = spawned_result(egress_listener, res)
    /\ UNCHANGED <<cache, ingress_vars, crypto_vars, e3_vars, config_vars>>

\* the task of connection c goes on
EgressStep(c, rec) ==
    /\ egress' = [egress EXCEPT ![c] = rec]
    /\ UNCHANGED <<cache, egress_listener, ingress_vars, crypto_vars, e3_vars, config_vars>>

\* server.accept() returns a stream, on which the customer sends one of W
EgressAccept(c, W) ==
    /\ egress_listener = "Listening"
    /\ egress[c].pc = "Idle"
    /\ \A d \in EConns : d < c => egress[d].pc # "Idle"
    /\ \E w \in W :
          EgressStep(c, [egress[c] EXCEPT !.pc = "Accepted", !.wire = w,
                                          !.external_stream = Stream(w)])

\* server.accept() fails: the loop goes round
EgressAcceptError ==
    /\ egress_listener = "Listening"
    /\ UNCHANGED vars

\* the customer closes its write side
EgressCustomerClose(c) ==
    /\ egress[c].pc \notin {"Idle", "Closed"}
    /\ ~egress[c].external_stream.eof
    /\ egress[c].external_stream.in = <<>>
    /\ EgressStep(c, [egress[c] EXCEPT !.external_stream.eof = TRUE])

\* the host forwarder closes its write side
EgressForwarderClose(c) ==
    /\ egress[c].pc \notin {"Idle", "Closed"}
    /\ egress[c].data_plane_stream.open
    /\ ~egress[c].data_plane_stream.eof
    /\ egress[c].data_plane_stream.in = <<>>
    /\ EgressStep(c, [egress[c] EXCEPT !.data_plane_stream.eof = TRUE])

\* faulty variant: the first bytes are looked at and left in the stream
EgressRead_peek(c) ==
    /\ egress[c].pc = "Accepted"
    /\ LET s == egress[c].external_stream IN
       \/ /\ s.in # <<>>
          /\ \E n \in 1..Min(BufSize, Len(s.in)) :
                EgressStep(c, [egress[c] EXCEPT !.pc = "Peeking", !.n = n,
                                                !.customer_data = SubSeq(s.in, 1, n)])
       \/ /\ s.in = <<>> /\ s.eof
          /\ EgressStep(c, [egress[c] EXCEPT !.pc = "Peeking", !.n = 0])
       \/ EgressEnd(c, egress[c], "Io")

\* let n = external_stream.read(&mut buf).await?
EgressRead(c) ==
    /\ egress[c].pc = "Accepted"
    /\ LET s == egress[c].external_stream IN
       \/ /\ s.in # <<>>
          /\ \E n \in 1..Min(BufSize, Len(s.in)) :
                EgressStep(c, [egress[c] EXCEPT !.pc = "Peeking", !.n = n,
                                                !.customer_data = SubSeq(s.in, 1, n),
                                                !.external_stream.in = Drop(s.in, n)])
       \/ /\ s.in = <<>> /\ s.eof
          /\ EgressStep(c, [egress[c] EXCEPT !.pc = "Peeking", !.n = 0])
       \/ EgressEnd(c, egress[c], "Io")

\* faulty variant: the forwarder is dialed as soon as a host name is parsed,
\* before the cache is asked
EgressParse_dialing(c) ==
    /\ egress[c].pc = "Peeking"
    /\ LET r == get_hostname(egress[c].customer_data) IN
       \/ /\ r.tag = "Some"
          /\ EgressStep(c, [egress[c] EXCEPT !.pc = "Dialed", !.hostname = r.val,
                                             !.dial = "Ok",
                                             !.data_plane_stream = Stream(<<>>)])
       \/ /\ r.tag = "None"
          /\ EgressEnd(c, egress[c], "NoHostnameFound")
       \/ /\ r.tag \in {"TlsParseError", "Panic"}
          /\ EgressEnd(c, egress[c], r.tag)

\* match Self::get_hostname(customer_data.to_vec())?
EgressParse(c) ==
    /\ egress[c].pc = "Peeking"
    /\ LET r == get_hostname(egress[c].customer_data) IN
       \/ /\ r.tag = "Some"
          /\ EgressStep(c, [egress[c] EXCEPT !.pc = "Parsed", !.hostname = r.val])
       \/ /\ r.tag = "None"
          /\ EgressEnd(c, egress[c], "NoHostnameFound")
       \/ /\ r.tag \in {"TlsParseError", "Panic"}
          /\ EgressEnd(c, egress[c], r.tag)

\* what the cache holds for the SNI host name of the bytes `data`
cache_entry(c, data) ==
    LET h == get_hostname(data) IN
    IF h.tag = "Some" /\ h.val \in DOMAIN c THEN c[h.val] ELSE NoIps

\* faulty variant: an ip is picked whatever the cache answered
choose_any(ips) == IPs

\* faulty variant: an empty answer set is answered with a default address
choose_or_default(ips) == IF ips = {} THEN {"1.1.1.1"} ELSE ips

\* ips.choose(&mut rand::thread_rng())
choose(ips) == ips

\* faulty variant: a host name the cache does not know is sent on to a
\* default address
EgressAuthorize_fallback(c) ==
    /\ egress[c].pc = "Parsed"
    /\ LET cached_ips == get_ip(cache, egress[c].hostname)
           rec == [egress[c] EXCEPT !.cached_ips = cached_ips, !.lookup = TRUE,
                                    !.cache_seen = cache_entry(cache, egress[c].customer_data)]
       IN  \E remote_ip \in (IF cached_ips.some THEN choose(cached_ips.val) ELSE {"1.1.1.1"}) :
              EgressStep(c, [rec EXCEPT !.pc = "Authorized", !.remote_ip = remote_ip])

\* faulty variant: the lookup runs while an entry is being replaced and sees
\* only a part of the answer set
EgressAuthorize_torn(c) ==
    /\ egress[c].pc = "Parsed"
    /\ LET entry == get_ip(cache, egress[c].hostname) IN
       \E part \in (IF entry.some THEN {Some(ips) : ips \in SUBSET entry.val} ELSE {entry}) :
          LET rec == [egress[c] EXCEPT !.cached_ips = part, !.lookup = TRUE,
                                       !.cache_seen = cache_entry(cache, egress[c].customer_data)]
          IN  \/ /\ part.some
                 /\ \E remote_ip \in choose(part.val) :
                       EgressStep(c, [rec EXCEPT !.pc = "Authorized", !.remote_ip = remote_ip])
              \/ /\ ~part.some \/ choose(part.val) = {}
                 /\ EgressEnd(c, rec, "MissingIP")

\* Cache::get_ip(hostname.as_ref()), then the match on the chosen ip
EgressAuthorize(c) ==
    /\ egress[c].pc = "Parsed"
    /\ LET cached_ips == get_ip(cache, egress[c].hostname)
           rec == [egress[c] EXCEPT !.cached_ips = cached_ips, !.lookup = TRUE,
                                    !.cache_seen = cache_entry(cache, egress[c].customer_data)]
       IN  \/ /\ cached_ips.some
              /\ \E remote_ip \in choose(cached_ips.val) :
                    EgressStep(c, [rec EXCEPT !.pc = "Authorized", !.remote_ip = remote_ip])
           \/ /\ ~cached_ips.some \/ choose(cached_ips.val) = {}
              /\ EgressEnd(c, rec, "MissingIP")

\* faulty variant: a channel that another connection has dialed is used again
EgressDial_shared(c, R) ==
    /\ egress[c].pc = "Authorized"
    /\ \/ \E r \in R :
             EgressStep(c, [egress[c] EXCEPT !.pc = "Dialed", !.dial = "Ok",
                                             !.data_plane_stream = Stream(r)])
       \/ \E d \in EConns \ {c} :
             /\ egress[d].data_plane_stream.open
             /\ EgressStep(c, [egress[c] EXCEPT !.pc = "Dialed", !.dial = "Ok",
                                                !.data_plane_stream = egress[d].data_plane_stream])
       \/ EgressEnd(c, [egress[c] EXCEPT !.dial = "Err"], "Io")

\* let mut data_plane_stream = Self::get_listener().await?
EgressDial(c, R) ==
    /\ egress[c].pc = "Authorized"
    /\ \/ \E r \in R :
             EgressStep(c, [egress[c] EXCEPT !.pc = "Dialed", !.dial = "Ok",
                                             !.data_plane_stream = Stream(r)])
       \/ EgressEnd(c, [egress[c] EXCEPT !.dial = "Err"], "Io")

\* data_plane_stream.write_all(&external_request): all of it
write_all(stream, bytes) == [stream EXCEPT !.out = @ \o bytes]

\* faulty variant: the captured bytes are forwarded as they are, with no frame
EgressWriteFrame_unframed(c) ==
    /\ egress[c].pc = "Dialed"
    /\ EgressStep(c, [egress[c] EXCEPT
                         !.pc = "Splicing",
                         !.data_plane_stream = write_all(@, egress[c].customer_data)])

\* ExternalRequest{..}.to_bytes()?, then write_all(&external_request).await?:
\* a write that fails may have sent any proper prefix of the frame
EgressWriteFrame(c) ==
    /\ egress[c].pc = "Dialed"
    /\ LET external_request == to_bytes(egress[c].remote_ip, egress[c].customer_data) IN
       \/ EgressStep(c, [egress[c] EXCEPT
                            !.pc = "Splicing",
                            !.data_plane_stream = write_all(@, external_request)])
       \/ \E k \in 0..(Len(external_request) - 1) :
             EgressEnd(c, [egress[c] EXCEPT
                              !.data_plane_stream =
                                  write_all(@, SubSeq(external_request, 1, k))],
                       "Io")
       \/ EgressEnd(c, egress[c], "RpcError")

\* faulty variant: the task goes on once one direction has ended and returns
\* only when both directions have reached EOF
EgressPipe_lingering(c) ==
    /\ egress[c].pc = "Splicing"
    /\ \E p \in pipe_streams(egress[c].external_stream, egress[c].data_plane_stream) :
          LET rec == [egress[c] EXCEPT !.external_stream = p.a, !.data_plane_stream = p.b]
              both == p.a.eof /\ p.b.eof IN
          \/ /\ ~p.done \/ (p.res = "Ok" /\ ~both)
             /\ EgressStep(c, rec)
          \/ /\ p.done /\ (p.res # "Ok" \/ both)
             /\ EgressEnd(c, rec, p.res)

\* pipe_streams(external_stream, data_plane_stream).await?
EgressPipe(c) ==
    /\ egress[c].pc = "Splicing"
    /\ \E p \in pipe_streams(egress[c].external_stream, egress[c].data_plane_stream) :
          LET rec == [egress[c] EXCEPT !.external_stream = p.a, !.data_plane_stream = p.b] IN
          \/ /\ ~p.done
             /\ EgressStep(c, rec)
          \/ /\ p.done
             /\ EgressEnd(c, rec, p.res)

\* connections C, customer streams W, resolutions of hosts H to answer sets A,
\* forwarder replies R
EgressNext(C, W, H, A, R) ==
    \/ EgressBind
    \/ EgressAcceptError
    \/ CacheWrite(H, A)
    \/ \E c \in C :
          \/ EgressAccept(c, W)
          \/ EgressCustomerClose(c)
          \/ EgressForwarderClose(c)
          \/ EgressRead(c)
          \/ EgressParse(c)
          \/ EgressAuthorize(c)
          \/ EgressDial(c, R)
          \/ EgressWriteFrame(c)
          \/ EgressPipe(c)

\* one egress connection, every kind of customer stream
SpecEgress == Init /\ [][EgressNext({1}, Wires, Hostnames, AnswerSets, Replies)]_vars

(***************************************************************************)
(* tcp_server: the host ingress bridge                                     *)
(***************************************************************************)
\* what a client may send to the bridge: the bridge reads none of it
IngressWires == { Junk \o App(MaxAppBytes),
                  ClientHello(Sni(<<BadName>>)) \o App(1),
                  <<>> }

FewIngressWires == { Junk }

IngressBind ==
    /\ ingress_listener = "Binding"
    /\ ingress_listener' \in {"Listening", "BindFailed"}
    /\ UNCHANGED <<egress_vars, ingress, crypto_vars, e3_vars, config_vars>>

\* the task of connection c ends with `res`, dropping both streams
IngressEnd(c, rec, res) ==
    /\ ingress' = [ingress EXCEPT ![c] =
                       [rec EXCEPT !.pc = "Closed", !.result = res,
                                   !.connection = Dropped(@),
                                   !.enclave_stream = Dropped(@)]]
    /\ ingress_listener' = spawned_result(ingress_listener, res)
    /\ UNCHANGED <<egress_vars, crypto_vars, e3_vars, config_vars>>

\* the task of connection c goes on
IngressStep(c, rec) ==
    /\ ingress' = [ingress EXCEPT ![c] = rec]
    /\ UNCHANGED <<egress_vars, ingress_listener, crypto_vars, e3_vars, config_vars>>

\* tcp_listener.accept() returns a connection, on which the client sends one of W
IngressAccept(c, W) ==
    /\ ingress_listener = "Listening"
    /\ ingress[c].pc = "Idle"
    /\ \A d \in IConns : d < c => ingress[d].pc # "Idle"
    /\ \E w \in W :
          IngressStep(c, [ingress[c] EXCEPT !.pc = "Accepted", !.wire = w,
                                            !.connection = Stream(w)])

\* tcp_listener.accept() fails: the loop goes round
IngressAcceptError ==
    /\ ingress_listener = "Listening"
    /\ UNCHANGED vars

\* the client closes its write side
IngressClientClose(c) ==
    /\ ingress[c].pc \notin {"Idle", "Closed"}
    /\ ~ingress[c].connection.eof
    /\ ingress[c].connection.in = <<>>
    /\ IngressStep(c, [ingress[c] EXCEPT !.connection.eof = TRUE])

\* the enclave closes its write side
IngressEnclaveClose(c) ==
    /\ ingress[c].pc \notin {"Idle", "Closed"}
    /\ ingress[c].enclave_stream.open
    /\ ~ingress[c].enclave_stream.eof
    /\ ingress[c].enclave_stream.in = <<>>
    /\ IngressStep(c, [ingress[c] EXCEPT !.enclave_stream.eof = TRUE])

\* faulty variant: the bridge reads the first unit of the client's bytes itself
IngressDial_peek(c, R) ==
    /\ ingress[c].pc = "Accepted"
    /\ \E r \in R :
          IngressStep(c, [ingress[c] EXCEPT !.pc = "Splicing", !.dial = "Ok", !.piped = TRUE,
                                            !.connection.in = IF @ = <<>> THEN @ ELSE Tail(@),
                                            !.enclave_stream = Stream(r)])

\* match get_connection_to_guest_process().await
IngressDial(c, R) ==
    /\ ingress[c].pc = "Accepted"
    /\ \/ \E r \in R :
             IngressStep(c, [ingress[c] EXCEPT !.pc = "Splicing", !.dial = "Ok", !.piped = TRUE,
                                               !.enclave_stream = Stream(r)])
       \/ IngressStep(c, [ingress[c] EXCEPT !.pc = "DialFailed", !.dial = "Err"])

\* faulty variant: the task returns without shutting the connection down
IngressShutdown_skipped(c) ==
    /\ ingress[c].pc = "DialFailed"
    /\ IngressEnd(c, ingress[c], "Ok")

\* connection.shutdown().await.expect(..); return
IngressShutdown(c) ==
    /\ ingress[c].pc = "DialFailed"
    /\ \/ IngressEnd(c, [ingress[c] EXCEPT !.shutdown = "Ok", !.connection.wr_shut = TRUE], "Ok")
       \/ IngressEnd(c, [ingress[c] EXCEPT !.shutdown = "Err"], "Panic")

\* if let Err(e) = pipe_streams(connection, enclave_stream).await
IngressPipe(c) ==
    /\ ingress[c].pc = "Splicing"
    /\ \E p \in pipe_streams(ingress[c].connection, ingress[c].enclave_stream) :
          LET rec == [ingress[c] EXCEPT !.connection = p.a, !.enclave_stream = p.b] IN
          \/ /\ ~p.done
             /\ IngressStep(c, rec)
          \/ /\ p.done
             /\ IngressEnd(c, rec, p.res)

\* connections C, client streams W, enclave replies R
IngressNext(C, W, R) ==
    \/ IngressBind
    \/ IngressAcceptError
    \/ \E c \in C :
          \/ IngressAccept(c, W)
          \/ IngressClientClose(c)
          \/ IngressEnclaveClose(c)
          \/ IngressDial(c, R)
          \/ IngressShutdown(c)
          \/ IngressPipe(c)

\* the ingress bridge with two connections in flight
SpecIngress == Init /\ [][IngressNext(IConns, IngressWires, Replies)]_vars

\* both listeners, each with two connections in flight
SpecListeners ==
    Init /\ [][\/ EgressNext(EConns, FewWires, {"a.com"}, {{"1.1.1.1"}}, {<<>>})
              \/ IngressNext(IConns, FewIngressWires, {<<>>})]_vars

\* The broker runs in the enclave and the bridge on the host: they are two
\* processes that share no state, and here either one runs on its own.
\* One connection carries a ClientHello and application bytes through the
\* broker, or bytes of any kind through the bridge.
SpliceWires == { ClientHello(Sni(<<Name("a.com")>>)) \o App(MaxAppBytes),
                 ClientHello(Sni(<<Name("b.com")>>)) }
SpliceIngressWires == { Junk \o App(MaxAppBytes), <<>> }
SpliceNext ==
    \/ /\ ingress_listener = "Binding"
       /\ EgressNext({1}, SpliceWires, Hostnames, {{"1.1.1.1"}}, Replies)
    \/ /\ egress_listener = "Binding"
       /\ IngressNext({1}, SpliceIngressWires, Replies)

\* two connections at a time, whose customers send different bytes, through
\* the broker or through the bridge
TwoWires == { ClientHello(Sni(<<Name("a.com")>>)) \o <<Tok("app", "x", 1)>>,
              ClientHello(Sni(<<Name("b.com")>>)) \o <<Tok("app", "y", 1)>> }
TwoIngressWires == { Junk \o <<Tok("app", "x", 1)>>, <<Tok("app", "y", 1)>> }
SpecTwoConnections ==
    Init /\ [][\/ /\ ingress_listener = "Binding"
                  /\ EgressNext(EConns, TwoWires, Hostnames, {{"1.1.1.1"}}, {<<>>})
               \/ /\ egress_listener = "Binding"
                  /\ IngressNext(IConns, TwoIngressWires, Replies)]_vars

\* a step of the splicer other than an I/O failure
EgressPipeProgress(c) == EgressPipe(c) /\ egress'[c].result # "Io"
IngressPipeProgress(c) == IngressPipe(c) /\ ingress'[c].result # "Io"

\* the runtime polls a task that can make progress: a spliced connection
\* whose splicer can copy a byte or see an EOF eventually does so
SpecSplice ==
    /\ Init /\ [][SpliceNext]_vars
    /\ WF_vars(EgressPipeProgress(1))
    /\ WF_vars(IngressPipeProgress(1))

(***************************************************************************)
(* CryptoApi: the crypto API facade, and the E3 client it calls            *)
(***************************************************************************)
Methods == {"POST", "GET"}
Paths == {"/encrypt", "/decrypt", "/attestation-doc", "/health"}
ApiKeys == {NoKey, Some("key_1")}
Bodies == {"{\"x\":1}", "{ \"x\": 1 }", "null", "{\"x\":"}
E3Statuses == {200, 204, 301, 401, 500}

\* serde_json::from_slice(&bytes): the JSON value of the bytes, or an error
from_slice(bytes) ==
    IF bytes \in {"{\"x\":1}", "{ \"x\": 1 }"} THEN [tag |-> "Ok", val |-> "Object{x: 1}"]
    ELSE IF bytes = "null" THEN [tag |-> "Ok", val |-> "Null"]
    ELSE [tag |-> "SerdeError", val |-> ""]

\* StatusCode::is_success
is_success(status) == status \in 200..299

\* CageContext::new(): the tenant context of the environment, or a VarError
CageContext_new(env) == env

\* the match of CryptoApi::api on (req.method(), req.uri().path())
route(method, path) ==
    IF method = "POST" /\ path = "/encrypt" THEN "encrypt"
    ELSE IF method = "POST" /\ path = "/decrypt" THEN "decrypt"
    ELSE IF method = "GET" /\ path = "/attestation-doc" THEN "attestation-doc"
    ELSE "not_found"

\* impl From<(&Value, &CageContext)> for E3Payload
E3Payload_from(val, context) == [data |-> Some(val), context |-> context]

\* impl From<&CageContext> for E3Payload
E3Payload_from_context(context) == [data |-> NoData, context |-> context]

\* faulty variant: the two identifiers of the tenant change places
try_into_swapped(payload) ==
    [data |-> IF payload.data.some THEN payload.data.val ELSE "Null",
     team_uuid |-> payload.context.app_uuid,
     app_uuid |-> payload.context.team_uuid]

\* impl TryInto<hyper::Body> for E3Payload: the object json!({"data": ..,
\* "team_uuid": .., "app_uuid": ..}); a data of None is serialized as null
try_into(payload) ==
    [data |-> IF payload.data.some THEN payload.data.val ELSE "Null",
     team_uuid |-> payload.context.team_uuid,
     app_uuid |-> payload.context.app_uuid]

\* faulty variant: a request without api-key is sent on with an empty key
build_request_default_key(req, env) ==
    LET cage_context == CageContext_new(env)
        body == from_slice(req.body)
    IN  IF ~cage_context.some THEN [tag |-> "MissingCageContext", key |-> "", payload |-> NoPayload]
        ELSE IF body.tag # "Ok" THEN [tag |-> "SerdeError", key |-> "", payload |-> NoPayload]
        ELSE [tag |-> "Ok", key |-> req.api_key.val,
              payload |-> E3Payload_from(body.val, cage_context.val)]

\* CryptoApi::build_request, given that the body could be read
build_request(req, env) ==
    LET cage_context == CageContext_new(env) IN
    IF ~cage_context.some THEN [tag |-> "MissingCageContext", key |-> "", payload |-> NoPayload]
    ELSE IF ~req.api_key.some THEN [tag |-> "MissingApiKey", key |-> "", payload |-> NoPayload]
    ELSE LET body == from_slice(req.body) IN
         IF body.tag # "Ok" THEN [tag |-> "SerdeError", key |-> "", payload |-> NoPayload]
         ELSE [tag |-> "Ok", key |-> req.api_key.val,
               payload |-> E3Payload_from(body.val, cage_context.val)]

\* the data plane is launched in some environment and CryptoApi::listen binds
CryptoListen ==
    /\ crypto_listener = "Starting"
    /\ env_context' \in Contexts
    /\ crypto_listener' \in {"Listening", "BindFailed"}
    /\ UNCHANGED <<egress_vars, ingress_vars, requests, e3_vars, config_vars>>

\* `api` returned Err: hyper drops the connection and writes no response
CryptoAbort(r, rec, err) ==
    /\ requests' = [requests EXCEPT ![r] =
                        [rec EXCEPT !.pc = "Done", !.err = err,
                                    !.response = [kind |-> "Aborted", status |-> 0, body |-> ""]]]
    /\ UNCHANGED <<egress_vars, ingress_vars, env_context, crypto_listener, e3_vars, config_vars>>

\* `api` returned Ok(response)
CryptoRespond(r, rec, status, body) ==
    /\ requests' = [requests EXCEPT ![r] =
                        [rec EXCEPT !.pc = "Done",
                                    !.response = [kind |-> "Http", status |-> status, body |-> body]]]
    /\ UNCHANGED <<egress_vars, ingress_vars, env_context, crypto_listener, e3_vars, config_vars>>

CryptoStep(r, rec) ==
    /\ requests' = [requests EXCEPT ![r] = rec]
    /\ UNCHANGED <<egress_vars, ingress_vars, env_context, crypto_listener, e3_vars, config_vars>>

\* the server hands a request to service_fn(|req| Self::api(CryptoApi::new(), req))
CryptoReceive(r) ==
    /\ crypto_listener = "Listening"
    /\ requests[r].pc = "Idle"
    /\ \A q \in Reqs : q < r => requests[q].pc # "Idle"
    /\ \E m \in Methods, p \in Paths, k \in ApiKeys, b \in Bodies :
          CryptoStep(r, [requests[r] EXCEPT !.pc = "Received", !.method = m, !.path = p,
                                            !.api_key = k, !.body = b])

\* CryptoApi::api, up to the call of the E3 client
CryptoApi_api(r) ==
    /\ requests[r].pc = "Received"
    /\ LET req == requests[r]
           to == route(req.method, req.path)
       IN  \/ /\ to \in {"encrypt", "decrypt"}
              /\ LET built == build_request(req, env_context) IN
                 \/ /\ built.tag = "Ok"
                    /\ CryptoStep(r, [req EXCEPT !.pc = "Built", !.key = built.key,
                                                 !.payload = built.payload])
                 \/ /\ built.tag # "Ok"
                    /\ CryptoAbort(r, req, built.tag)
                 \/ /\ built.tag \in {"Ok", "SerdeError"}   \* body::to_bytes(body).await? fails
                    /\ CryptoAbort(r, req, "HyperError")
           \/ /\ to = "attestation-doc"
              /\ \/ CryptoRespond(r, req, 200, "attestation")
                 \/ CryptoAbort(r, req, "Attestation")
           \/ /\ to = "not_found"
              /\ CryptoRespond(r, req, 404, "")

\* E3Client::send: self.get_conn().await?
E3Client_get_conn(r) ==
    /\ requests[r].pc = "Built"
    /\ \/ CryptoStep(r, [requests[r] EXCEPT !.pc = "Connected", !.e3_conn = TRUE])
       \/ CryptoAbort(r, requests[r], "IoError")                            \* get_socket
       \/ CryptoAbort(r, [requests[r] EXCEPT !.e3_conn = TRUE], "IoError")  \* the handshake

\* E3Client::send: request_sender.send_request(..).await?, then the status check
E3Client_send(r) ==
    /\ requests[r].pc = "Connected"
    /\ LET req == requests[r]
           sent == [req EXCEPT !.e3_request =
                        [sent |-> TRUE, path |-> req.path, api_key |-> req.key,
                         body |-> try_into(req.payload)]]
       IN  \/ \E status \in E3Statuses :
                 \/ /\ is_success(status)
                    /\ CryptoStep(r, [sent EXCEPT !.pc = "Responded", !.e3_status = status])
                 \/ /\ ~is_success(status)
                    /\ CryptoAbort(r, [sent EXCEPT !.e3_status = status], "FailedRequest")
           \/ CryptoAbort(r, sent, "HyperError")

\* E3Client::parse_response, then encrypt/decrypt return the data of the response
E3Client_parse_response(r) ==
    /\ requests[r].pc = "Responded"
    /\ \/ CryptoRespond(r, requests[r], 200, "data")
       \/ CryptoAbort(r, requests[r], "SerdeError")
       \/ CryptoAbort(r, requests[r], "HyperError")

CryptoNext ==
    \/ CryptoListen
    \/ \E r \in Reqs :
          \/ CryptoReceive(r)
          \/ CryptoApi_api(r)
          \/ E3Client_get_conn(r)
          \/ E3Client_send(r)
          \/ E3Client_parse_response(r)

\* the facade with two requests in flight
SpecCrypto == Init /\ [][CryptoNext]_vars

(***************************************************************************)
(* E3Client: its methods, as functions of the call and of what the E3      *)
(* server does with it                                                     *)
(***************************************************************************)
E3Keys == {"key_1", "key_2"}
E3Contexts == { [team_uuid |-> "team_1", app_uuid |-> "app_1"],
                [team_uuid |-> "team_2", app_uuid |-> "app_2"] }
Values == {"Null", "Object{x: 1}"}
E3Payloads ==
    {E3Payload_from(v, ctx) : v \in Values, ctx \in E3Contexts}
    \cup {E3Payload_from_context(ctx) : ctx \in E3Contexts}
E3Bodies == {"{\"x\":1}", "{\"x\":"}
\* the connection fails (get_socket, TLS), the HTTP handshake fails, the
\* exchange fails, E3 answers, or E3 answers and its body cannot be read
E3Outcomes ==
    {[kind |-> k, status |-> 0, body |-> ""] :
        k \in {"ConnectError", "HandshakeError", "SendError"}}
    \cup {[kind |-> k, status |-> st, body |-> b] :
            k \in {"Response", "BrokenBody"}, st \in E3Statuses, b \in E3Bodies}
E3Ops == {"authenticate", "encrypt", "decrypt"}

\* faulty variant: the response is handed back whatever its status
send_any_status(api_key, path, payload, outcome) ==
    LET decrypt_request == [sent |-> TRUE, path |-> path, api_key |-> api_key,
                            body |-> payload]
    IN  IF outcome.kind = "ConnectError"
        THEN [NoResult EXCEPT !.tag = "IoError"]
        ELSE IF outcome.kind = "HandshakeError"
        THEN [NoResult EXCEPT !.tag = "HyperError"]
        ELSE IF outcome.kind = "SendError"
        THEN [NoResult EXCEPT !.tag = "HyperError", !.request = decrypt_request]
        ELSE [NoResult EXCEPT !.tag = "Ok", !.status = outcome.status,
                              !.request = decrypt_request]

\* E3Client::send: the request is built, a connection is opened, the request
\* is sent, and a response whose status is no success is an error
send(api_key, path, payload, outcome) ==
    LET decrypt_request == [sent |-> TRUE, path |-> path, api_key |-> api_key,
                            body |-> payload]
    IN  IF outcome.kind = "ConnectError"
        THEN [NoResult EXCEPT !.tag = "IoError"]
        ELSE IF outcome.kind = "HandshakeError"
        THEN [NoResult EXCEPT !.tag = "HyperError"]
        ELSE IF outcome.kind = "SendError"
        THEN [NoResult EXCEPT !.tag = "HyperError", !.request = decrypt_request]
        ELSE IF ~is_success(outcome.status)
        THEN [NoResult EXCEPT !.tag = "FailedRequest", !.status = outcome.status,
                              !.request = decrypt_request]
        ELSE [NoResult EXCEPT !.tag = "Ok", !.status = outcome.status,
                              !.request = decrypt_request]

\* E3Client::parse_response: the body is read whole, then decoded as JSON
parse_response(res, outcome) ==
    IF outcome.kind = "BrokenBody" THEN [res EXCEPT !.tag = "HyperError"]
    ELSE LET v == from_slice(outcome.body) IN
         IF v.tag = "Ok" THEN [res EXCEPT !.json = v.val, !.decoded = TRUE]
         ELSE [res EXCEPT !.tag = "SerdeError", !.decoded = TRUE]

\* E3Client::decrypt
decrypt(api_key, payload, outcome) ==
    LET response == send(api_key, "/decrypt", try_into(payload), outcome) IN
    IF response.tag # "Ok" THEN response ELSE parse_response(response, outcome)

\* E3Client::encrypt
encrypt(api_key, payload, outcome) ==
    LET response == send(api_key, "/encrypt", try_into(payload), outcome) IN
    IF response.tag # "Ok" THEN response ELSE parse_response(response, outcome)

\* E3Client::authenticate
authenticate(api_key, payload, outcome) ==
    LET response == send(api_key, "/authenticate", try_into(payload), outcome) IN
    IF response.tag # "Ok" THEN response
    ELSE [response EXCEPT !.bool = is_success(response.status)]

\* the data plane calls a method of the E3 client and E3 does one of E3Outcomes
E3Call(i) ==
    /\ e3_calls[i].pc = "Idle"
    /\ \E op \in E3Ops, api_key \in E3Keys, payload \in E3Payloads, outcome \in E3Outcomes :
          e3_calls' = [e3_calls EXCEPT ![i] =
              [pc |-> "Done", op |-> op, api_key |-> api_key, payload |-> payload,
               outcome |-> outcome,
               result |-> IF op = "authenticate" THEN authenticate(api_key, payload, outcome)
                          ELSE IF op = "encrypt" THEN encrypt(api_key, payload, outcome)
                          ELSE decrypt(api_key, payload, outcome)]]
    /\ UNCHANGED <<egress_vars, ingress_vars, crypto_vars, config_vars>>

E3Next == \E i \in Calls : E3Call(i)

\* the E3 client on its own
SpecE3 == Init /\ [][E3Next]_vars

\* the facade serving one request, and the E3 client called by the data plane
SpecCryptoE3 ==
    Init /\ [][\/ CryptoListen
               \/ CryptoReceive(1)
               \/ CryptoApi_api(1)
               \/ E3Client_get_conn(1)
               \/ E3Client_send(1)
               \/ E3Client_parse_response(1)
               \/ E3Next]_vars

(***************************************************************************)
(* configuration.rs: the egress ports and the egress allow list            *)
(***************************************************************************)
U16Max == 65535
Digits == <<"0", "1", "2", "3", "4", "5", "6", "7", "8", "9">>
IsDigit(ch) == \E d \in 1..10 : Digits[d] = ch
DigitValue(ch) == (CHOOSE d \in 1..10 : Digits[d] = ch) - 1
\* a byte that is no part of any UTF-8 encoding
BadByte == "\\xFF"

Var(chars) == [some |-> TRUE, val |-> chars]

\* values of EGRESS_PORTS
PortsValues ==
    { NoVar,
      Var(<<>>),
      Var(<<"4", "4", "3">>),
      Var(<<"4", "4", "3", ",", "8", "4", "4", "3">>),
      Var(<<"0">>),
      Var(<<"0", "0", "8", "0">>),
      Var(<<"6", "5", "5", "3", "5">>),
      Var(<<"6", "5", "5", "3", "6">>),
      Var(<<"9", "9", "9", "9", "9", "9">>),
      Var(<<"4", "4", "3", ",", "6", "5", "5", "3", "6">>),
      Var(<<"4", "4", "3", ",">>),
      Var(<<",", "4", "4", "3">>),
      Var(<<",">>),
      Var(<<"8", "0", ",", ",", "4", "4", "3">>),
      Var(<<"x">>),
      Var(<<"4", "4", "x">>),
      Var(<<"4", "4", "3", ",", "x">>),
      Var(<<"4", "4", "3", ",", " ", "8", "0">>),
      Var(<<"-", "1">>),
      Var(<<"+", "8", "0">>),
      Var(<<"+">>),
      Var(<<"8", "+", "0">>),
      Var(<<BadByte>>),
      Var(<<"4", "4", "3", ",", BadByte>>) }

\* values of EGRESS_ALLOW_LIST; a host name counts as one character
AllowListValues ==
    { NoVar,
      Var(<<>>),
      Var(<<"a.com">>),
      Var(<<"a.com", ",", "b.com">>),
      Var(<<"a.com", ",">>),
      Var(<<BadByte>>) }

\* std::env::var(key): Err(NotPresent) for a variable that is not set,
\* Err(NotUnicode) for a value that is not valid Unicode
env_var(v) ==
    IF ~v.some THEN [tag |-> "NotPresent", val |-> <<>>]
    ELSE IF \E i \in 1..Len(v.val) : v.val[i] = BadByte THEN [tag |-> "NotUnicode", val |-> <<>>]
    ELSE [tag |-> "Ok", val |-> v.val]

\* Result::unwrap_or(default)
unwrap_or(res, default) == IF res.tag = "Ok" THEN res.val ELSE default

\* str::split(','): the pieces between the commas, one more than there are commas
RECURSIVE split(_)
split(str) ==
    IF \A i \in 1..Len(str) : str[i] # "," THEN <<str>>
    ELSE LET k == CHOOSE i \in 1..Len(str) :
                     str[i] = "," /\ \A j \in 1..(i - 1) : str[j] # ","
         IN  <<SubSeq(str, 1, k - 1)>> \o split(SubSeq(str, k + 1, Len(str)))

\* the digits of str::parse::<u16>, with the checked multiplication and addition
RECURSIVE parse_digits(_, _)
parse_digits(str, acc) ==
    IF str = <<>> THEN [tag |-> "Ok", val |-> acc]
    ELSE IF ~IsDigit(Head(str)) THEN [tag |-> "InvalidDigit", val |-> 0]
    ELSE LET v == acc * 10 + DigitValue(Head(str)) IN
         IF v > U16Max THEN [tag |-> "PosOverflow", val |-> 0]
         ELSE parse_digits(Tail(str), v)

\* str::parse::<u16>(): a leading '+' is accepted, a '-' is not
parse_u16(str) ==
    IF str = <<>> THEN [tag |-> "Empty", val |-> 0]
    ELSE LET digits == IF Head(str) = "+" THEN Tail(str) ELSE str IN
         IF digits = <<>> THEN [tag |-> "InvalidDigit", val |-> 0]
         ELSE parse_digits(digits, 0)

\* get_egress_ports(): the ports, or the panic of unwrap_or_else
get_egress_ports(env) ==
    LET port_str == unwrap_or(env_var(env.EGRESS_PORTS), <<"4", "4", "3">>)
        ports == [i \in 1..Len(split(port_str)) |-> parse_u16(split(port_str)[i])]
    IN  IF \E i \in 1..Len(ports) : ports[i].tag # "Ok"
        THEN [tag |-> "Panic", val |-> <<>>]
        ELSE [tag |-> "Ok", val |-> [i \in 1..Len(ports) |-> ports[i].val]]

\* get_egress_allow_list()
get_egress_allow_list(env) ==
    LET domain_str == unwrap_or(env_var(env.EGRESS_ALLOW_LIST), <<>>) IN
    [tag |-> "Ok", val |-> split(domain_str)]

\* the data plane is launched with EGRESS_PORTS in P and EGRESS_ALLOW_LIST in L
SetEnv(P, L) ==
    /\ config = Unread
    /\ environ = NoEnviron
    /\ egress_listener = "Binding"
    /\ \E p \in P, l \in L :
          environ' = [EGRESS_PORTS |-> p, EGRESS_ALLOW_LIST |-> l]
    /\ UNCHANGED <<egress_vars, ingress_vars, crypto_vars, e3_vars, config>>

ReadEgressPorts ==
    /\ config.egress_ports.tag = "NotRead"
    /\ config' = [config EXCEPT !.egress_ports = get_egress_ports(environ)]
    /\ UNCHANGED <<egress_vars, ingress_vars, crypto_vars, e3_vars, environ>>

ReadEgressAllowList ==
    /\ config.egress_allow_list.tag = "NotRead"
    /\ config' = [config EXCEPT !.egress_allow_list = get_egress_allow_list(environ)]
    /\ UNCHANGED <<egress_vars, ingress_vars, crypto_vars, e3_vars, environ>>

ConfigNext(P, L) ==
    \/ SetEnv(P, L)
    \/ ReadEgressPorts
    \/ ReadEgressAllowList

\* the configuration is read in every environment
SpecConfig == Init /\ [][ConfigNext(PortsValues, AllowListValues)]_vars

\* the egress broker of a data plane launched with some allow list
SpecEgressConfig ==
    Init /\ [][\/ ConfigNext({NoVar}, AllowListValues)
               \/ EgressNext({1}, FewWires, {"a.com"}, {{"1.1.1.1"}}, Replies)]_vars

(***************************************************************************)
(* Properties of the egress broker                                         *)
(***************************************************************************)
\* the frame of connection c, and what the broker has sent to the forwarder
FrameOf(c) == to_bytes(egress[c].remote_ip, egress[c].customer_data)
HostOut(c) == egress[c].data_plane_stream.out
\* the customer's bytes that follow those of the first read
AfterFirstRead(c) == Drop(egress[c].wire, egress[c].n)
FrameHeaders(out) == Cardinality({i \in 1..Len(out) : out[i][1] = "frame"})

\* C1, as stated: in every reachable state the bytes sent on the host channel
\* are empty or begin with the complete frame, spliced bytes only after it
C1_EmptyOrCompleteFrame ==
    \A c \in EConns :
        \/ HostOut(c) = <<>>
        \/ /\ IsPrefix(FrameOf(c), HostOut(c))
           /\ IsPrefix(Drop(HostOut(c), Len(FrameOf(c))), AfterFirstRead(c))

\* C1, amended: the bytes sent on the host channel are always a prefix of the
\* one frame followed by the spliced customer bytes (no byte precedes the
\* frame, the frame is sent at most once); while splicing they begin with the
\* complete frame; less than the frame is there only after the write of the
\* frame failed, which closes the connection with an I/O error
C1_NoByteBeforeFrame ==
    \A c \in EConns :
        /\ IsPrefix(HostOut(c), FrameOf(c) \o AfterFirstRead(c))
        /\ FrameHeaders(HostOut(c)) <= 1
        /\ egress[c].pc = "Splicing" => IsPrefix(FrameOf(c), HostOut(c))
        /\ HostOut(c) # <<>> /\ ~IsPrefix(FrameOf(c), HostOut(c))
              => egress[c].pc = "Closed" /\ egress[c].result = "Io"
        /\ egress[c].pc \in {"Idle", "Accepted", "Peeking", "Parsed", "Authorized", "Dialed"}
              => HostOut(c) = <<>>

\* a connection that has sent its frame and spliced customer bytes after it
C1_Witness ==
    \E c \in EConns :
        /\ egress[c].pc = "Splicing"
        /\ Len(HostOut(c)) > Len(FrameOf(c))
        /\ Len(egress[c].customer_data) > 0

\* C2: the ip of the frame of a connection that reaches Splicing is an element
\* of the answer set the cache held, at the lookup, for the SNI host name
\* parsed from the bytes of its first read
C2_IpFromAnswerSet ==
    \A c \in EConns :
        egress[c].pc = "Splicing" =>
            /\ get_hostname(egress[c].customer_data).tag = "Some"
            /\ egress[c].hostname = get_hostname(egress[c].customer_data).val
            /\ egress[c].cache_seen.some
            /\ HostOut(c)[1][1] = "frame"
            /\ HostOut(c)[1][2] \in egress[c].cache_seen.val

\* a connection is Splicing to an ip that a later resolution has removed from
\* the cache's answer set
C2_Witness ==
    \E c \in EConns :
        /\ egress[c].pc = "Splicing"
        /\ egress[c].hostname \in Hostnames
        /\ cache[egress[c].hostname].some
        /\ egress[c].remote_ip \notin cache[egress[c].hostname].val

\* C3: a connection whose host name had no entry at the lookup ends with
\* MissingIP, without a dial of the forwarder and without a byte sent to it
C3_MissingIP ==
    \A c \in EConns :
        egress[c].lookup /\ ~egress[c].cache_seen.some =>
            /\ egress[c].pc = "Closed"
            /\ egress[c].result = "MissingIP"
            /\ egress[c].dial = ""
            /\ HostOut(c) = <<>>

\* a host name the forwarder resolves was looked up before it was resolved
C3_Witness ==
    \E c \in EConns :
        /\ egress[c].lookup
        /\ egress[c].hostname \in Hostnames
        /\ ~egress[c].cache_seen.some
        /\ egress[c].result = "MissingIP"
        /\ cache[egress[c].hostname].some

\* the first read held a whole ClientHello with no SNI host name, or an empty one
NoSniHostname(c) ==
    LET h == get_hostname(egress[c].customer_data) IN
    /\ egress[c].pc \notin {"Idle", "Accepted"}
    /\ parse_tls_plaintext(egress[c].customer_data).tag = "Ok"
    /\ parse_tls_plaintext(egress[c].customer_data).msg = "ch"
    /\ h.tag = "None" \/ (h.tag = "Some" /\ h.val = "")

\* C4: a connection whose ClientHello has no SNI extension, or an empty SNI
\* host name, is rejected with NoHostnameFound and without a dial
C4_NoHostnameFound ==
    \A c \in EConns :
        NoSniHostname(c) /\ egress[c].pc = "Closed" =>
            /\ egress[c].result = "NoHostnameFound"
            /\ egress[c].dial = ""

(***************************************************************************)
(* Properties of the listeners                                             *)
(***************************************************************************)
Failed(rec) == rec.pc = "Closed" /\ rec.result # "Ok"

\* C5: after a failure in a connection task the listener is still in its
\* accept loop and accepts the next connection, and the step that ends a task
\* changes no other connection, of either listener
C5_CrashResistant ==
    /\ [](/\ (\E c \in EConns : egress[c].pc = "Closed") => egress_listener = "Listening"
          /\ (\E c \in IConns : ingress[c].pc = "Closed") => ingress_listener = "Listening"
          /\ \A c \in EConns : Failed(egress[c]) =>
                \A d \in EConns : egress[d].pc = "Idle" /\ (\A b \in EConns : b < d => egress[b].pc # "Idle")
                    => ENABLED EgressAccept(d, FewWires)
          /\ \A c \in IConns : Failed(ingress[c]) =>
                \A d \in IConns : ingress[d].pc = "Idle" /\ (\A b \in IConns : b < d => ingress[b].pc # "Idle")
                    => ENABLED IngressAccept(d, FewIngressWires))
    /\ [][/\ \A c \in EConns :
                egress[c].pc # "Closed" /\ egress'[c].pc = "Closed" =>
                    /\ \A d \in EConns \ {c} : egress'[d] = egress[d]
                    /\ ingress' = ingress
                    /\ egress_listener' = egress_listener /\ ingress_listener' = ingress_listener
          /\ \A c \in IConns :
                ingress[c].pc # "Closed" /\ ingress'[c].pc = "Closed" =>
                    /\ \A d \in IConns \ {c} : ingress'[d] = ingress[d]
                    /\ egress' = egress
                    /\ egress_listener' = egress_listener /\ ingress_listener' = ingress_listener]_vars

\* on each listener a connection has failed while another one is being
\* spliced and the listener still accepts
C5_Witness ==
    /\ Failed(egress[1]) /\ egress[2].pc = "Splicing" /\ egress_listener = "Listening"
    /\ Failed(ingress[1]) /\ ingress[2].pc = "Splicing" /\ ingress_listener = "Listening"
    /\ HostOut(2) # <<>>

(***************************************************************************)
(* Properties of the ingress bridge                                        *)
(***************************************************************************)
\* C6: when the dial of the enclave fails the bridge shuts the customer
\* connection down and drops it and never invokes the splicer; when the dial
\* succeeds the splicer is invoked on the connection and the enclave channel
C6_DialFailure ==
    \A c \in IConns :
        /\ ingress[c].dial = "Err" =>
              /\ ~ingress[c].piped
              /\ ingress[c].pc \in {"DialFailed", "Closed"}
              /\ ingress[c].connection.out = <<>> /\ ingress[c].enclave_stream.out = <<>>
              /\ ingress[c].pc = "Closed" =>
                    /\ ingress[c].shutdown # ""
                    /\ ingress[c].shutdown = "Ok" => ingress[c].connection.wr_shut
        /\ ingress[c].dial = "Ok" => ingress[c].piped /\ ingress[c].pc \in {"Splicing", "Closed"}
        /\ ingress[c].piped => ingress[c].dial = "Ok"
        /\ ingress[c].shutdown # "" => ingress[c].dial = "Err"

\* one connection was shut down and dropped after a failed dial, another one
\* is being spliced after a dial that succeeded
C6_Witness ==
    \E c, d \in IConns :
        /\ ingress[c].dial = "Err" /\ ingress[c].pc = "Closed"
        /\ ingress[c].shutdown = "Ok" /\ ingress[c].connection.wr_shut
        /\ ingress[d].dial = "Ok" /\ ingress[d].pc = "Splicing"
        /\ ingress[d].enclave_stream.out # <<>>

\* C7: the bytes delivered to the enclave are at all times a prefix of the
\* bytes the client sent, whatever they are; the bridge holds back none of
\* them and every dial that succeeds leads to the splicer
C7_Oblivious ==
    \A c \in IConns :
        /\ IsPrefix(ingress[c].enclave_stream.out, ingress[c].wire)
        /\ ingress[c].pc \in {"Accepted", "DialFailed", "Splicing"} =>
              ingress[c].enclave_stream.out \o ingress[c].connection.in = ingress[c].wire
        /\ ingress[c].dial = "Ok" => ingress[c].piped

\* bytes that are no TLS record have all reached the enclave
C7_Witness ==
    \E c \in IConns :
        /\ ingress[c].wire # <<>>
        /\ get_hostname(ingress[c].wire).tag \in {"TlsParseError", "Panic"}
        /\ ingress[c].enclave_stream.out = ingress[c].wire

(***************************************************************************)
(* Properties of the crypto API facade                                     *)
(***************************************************************************)
IsCryptoCall(rq) == route(rq.method, rq.path) \in {"encrypt", "decrypt"}

\* C8: a POST /encrypt or /decrypt without api-key ends in an error, and no
\* connection to E3 is opened and no request is sent to E3 for it
C8_NoKeyNoE3 ==
    \A r \in Reqs :
        requests[r].pc # "Idle" /\ IsCryptoCall(requests[r]) /\ ~requests[r].api_key.some =>
            /\ ~requests[r].e3_conn
            /\ ~requests[r].e3_request.sent
            /\ requests[r].pc \in {"Received", "Done"}
            /\ requests[r].pc = "Done" =>
                  requests[r].err # "" /\ requests[r].response.kind # "Http"

\* a request without api-key has ended with MissingApiKey while another one,
\* with the key, has been sent to E3
C8_Witness ==
    \E r, q \in Reqs :
        /\ IsCryptoCall(requests[r]) /\ ~requests[r].api_key.some
        /\ requests[r].pc = "Done" /\ requests[r].err = "MissingApiKey"
        /\ requests[q].e3_request.sent

\* C9: a POST /encrypt or /decrypt without api-key is answered with an HTTP
\* response of status 4xx that reports MissingApiKey (stated here for the
\* facade whose tenant context is resolved)
C9_MissingApiKey4xx ==
    \A r \in Reqs :
        /\ env_context.some
        /\ requests[r].pc = "Done" /\ IsCryptoCall(requests[r]) /\ ~requests[r].api_key.some
        =>
            /\ requests[r].response.kind = "Http"
            /\ requests[r].response.status \in 400..499
            /\ requests[r].err = "MissingApiKey"

\* C10: with no tenant context in the environment the facade serves no
\* request on any route and never contacts E3
C10_RefusesToServe ==
    crypto_listener # "Starting" /\ ~env_context.some =>
        \A r \in Reqs :
            /\ requests[r].response.kind # "Http"
            /\ ~requests[r].e3_conn

(***************************************************************************)
(* Properties of the E3 client                                             *)
(***************************************************************************)
\* E3 answered the call with a status
Answered(call) == call.pc = "Done" /\ call.outcome.kind \in {"Response", "BrokenBody"}

\* C11: authenticate returns the value true for every response of status 2xx
\* and the value false, not an error, for every response of another status
C11_AuthenticateBool ==
    \A i \in Calls :
        Answered(e3_calls[i]) /\ e3_calls[i].op = "authenticate" =>
            /\ e3_calls[i].result.tag = "Ok"
            /\ e3_calls[i].result.bool = is_success(e3_calls[i].outcome.status)

\* C12: for encrypt and decrypt a response of a status other than 2xx surfaces
\* as FailedRequest carrying that status and its body is never decoded; a
\* decoded JSON result comes from a response of status 2xx only
C12_FailedRequest ==
    \A i \in Calls :
        Answered(e3_calls[i]) /\ e3_calls[i].op \in {"encrypt", "decrypt"} =>
            LET call == e3_calls[i] IN
            /\ ~is_success(call.outcome.status) =>
                  /\ call.result.tag = "FailedRequest"
                  /\ call.result.status = call.outcome.status
                  /\ ~call.result.decoded /\ call.result.json = ""
            /\ call.result.decoded => is_success(call.outcome.status)
            /\ call.result.tag = "Ok" =>
                  /\ is_success(call.outcome.status)
                  /\ call.result.decoded
                  /\ call.result.json = from_slice(call.outcome.body).val

\* E3 answered an encrypt or decrypt with a status that is no success and a
\* body that is valid JSON
C12_Witness ==
    \E i \in Calls :
        /\ Answered(e3_calls[i]) /\ e3_calls[i].op \in {"encrypt", "decrypt"}
        /\ e3_calls[i].outcome.kind = "Response"
        /\ ~is_success(e3_calls[i].outcome.status)
        /\ from_slice(e3_calls[i].outcome.body).tag = "Ok"
        /\ e3_calls[i].result.tag = "FailedRequest"

\* C13: every request sent to E3 has a body of exactly the fields data,
\* team_uuid and app_uuid, the two identifiers being those of the tenant
\* context whatever the data, the data being the caller's JSON value (null
\* when there is none), and carries the api-key of the caller
C13_BodyAndKey ==
    /\ \A r \in Reqs :
          requests[r].e3_request.sent =>
              LET rq == requests[r].e3_request IN
              /\ DOMAIN rq.body = {"data", "team_uuid", "app_uuid"}
              /\ env_context.some
              /\ rq.body.team_uuid = env_context.val.team_uuid
              /\ rq.body.app_uuid = env_context.val.app_uuid
              /\ from_slice(requests[r].body).tag = "Ok"
              /\ rq.body.data = from_slice(requests[r].body).val
              /\ requests[r].api_key.some
              /\ rq.api_key = requests[r].api_key.val
    /\ \A i \in Calls :
          e3_calls[i].result.request.sent =>
              LET rq == e3_calls[i].result.request
                  payload == e3_calls[i].payload IN
              /\ DOMAIN rq.body = {"data", "team_uuid", "app_uuid"}
              /\ rq.body.team_uuid = payload.context.team_uuid
              /\ rq.body.app_uuid = payload.context.app_uuid
              /\ rq.body.data = (IF payload.data.some THEN payload.data.val ELSE "Null")
              /\ rq.api_key = e3_calls[i].api_key

\* the facade has sent a request with a JSON object to E3, and the data plane
\* one without data for the second tenant
C13_Witness ==
    /\ \E r \in Reqs :
          /\ requests[r].e3_request.sent
          /\ requests[r].e3_request.body.data = "Object{x: 1}"
          /\ requests[r].e3_request.api_key = "key_1"
    /\ \E i \in Calls :
          /\ e3_calls[i].result.request.sent
          /\ ~e3_calls[i].payload.data.some
          /\ e3_calls[i].result.request.body.team_uuid = "team_2"

(***************************************************************************)
(* Properties of the configuration                                         *)
(***************************************************************************)
\* the elements of a comma-separated value: what lies before, between and
\* after its commas
Commas(str) == {i \in 1..Len(str) : str[i] = ","}
Elements(str) ==
    LET cut == [k \in 0..(Cardinality(Commas(str)) + 1) |->
                   IF k = 0 THEN 0
                   ELSE IF k = Cardinality(Commas(str)) + 1 THEN Len(str) + 1
                   ELSE CHOOSE i \in Commas(str) :
                            Cardinality({j \in Commas(str) : j < i}) = k - 1]
    IN  [k \in 1..(Cardinality(Commas(str)) + 1) |-> SubSeq(str, cut[k - 1] + 1, cut[k] - 1)]

\* an element is numeric: a numeral of decimal digits; its value
Numeric(e) == e # <<>> /\ \A i \in 1..Len(e) : IsDigit(e[i])
RECURSIVE NumeralValue(_)
NumeralValue(e) ==
    IF e = <<>> THEN 0
    ELSE NumeralValue(SubSeq(e, 1, Len(e) - 1)) * 10 + DigitValue(e[Len(e)])
\* a numeral with a sign, which the claim calls neither numeric nor non-numeric
Signed(e) == e # <<>> /\ e[1] \in {"+", "-"} /\ Numeric(Tail(e))

\* C14: when EGRESS_PORTS is not set get_egress_ports yields [443]; a list of
\* numerals within 0..65535 yields their values in order; an empty value, or
\* a value with an element that is not numeric or lies outside 0..65535,
\* panics
C14_EgressPorts ==
    config.egress_ports.tag # "NotRead" =>
        LET v == environ.EGRESS_PORTS
            es == Elements(v.val)
            res == config.egress_ports
        IN  /\ ~v.some => res.tag = "Ok" /\ res.val = <<443>>
            /\ v.some /\ (\A k \in 1..Len(es) : Numeric(es[k]) /\ NumeralValue(es[k]) <= U16Max) =>
                  /\ res.tag = "Ok"
                  /\ res.val = [k \in 1..Len(es) |-> NumeralValue(es[k])]
            /\ v.some /\ (\/ v.val = <<>>
                          \/ \E k \in 1..Len(es) :
                                \/ ~Numeric(es[k]) /\ ~Signed(es[k])
                                \/ Numeric(es[k]) /\ NumeralValue(es[k]) > U16Max) =>
                  res.tag = "Panic"

\* EGRESS_ALLOW_LIST is not set, or is set to the empty string
EmptyAllowList == ~environ.EGRESS_ALLOW_LIST.some \/ environ.EGRESS_ALLOW_LIST.val = <<>>

\* C15: once the allow list was read from an environment where it is unset
\* or empty, it holds no host name, and no egress connection is taken to the
\* host forwarder: the broker dials for none and sends a frame for none
C15_NoEgress ==
    [][config.egress_allow_list.tag = "Ok" /\ EmptyAllowList =>
          /\ \A k \in 1..Len(config.egress_allow_list.val) :
                config.egress_allow_list.val[k] = <<>>
          /\ \A c \in EConns :
                /\ egress[c].dial = "" => egress'[c].dial = ""
                /\ HostOut(c) = <<>> => egress'[c].data_plane_stream.out = <<>>]_vars

EgressPeerClosed(c) == egress[c].external_stream.eof \/ egress[c].data_plane_stream.eof
IngressPeerClosed(c) == ingress[c].connection.eof \/ ingress[c].enclave_stream.eof

\* C17: a connection that is Splicing and one of whose peers has closed
\* eventually is Closed, on the egress broker and on the ingress bridge
C17_SpliceTerminates ==
    /\ \A c \in EConns :
          (egress[c].pc = "Splicing" /\ EgressPeerClosed(c)) ~> (egress[c].pc = "Closed")
    /\ \A c \in IConns :
          (ingress[c].pc = "Splicing" /\ IngressPeerClosed(c)) ~> (ingress[c].pc = "Closed")

\* the splicer has returned without error after the customer closed: all of
\* the customer's bytes were delivered and the write side of the host channel
\* was shut down
C17_Witness ==
    \E c \in EConns :
        /\ egress[c].pc = "Closed" /\ egress[c].result = "Ok"
        /\ egress[c].data_plane_stream.wr_shut
        /\ HostOut(c) = FrameOf(c) \o AfterFirstRead(c)
        /\ AfterFirstRead(c) # <<>>

\* C18: every connection has a channel of its own, dialed once for it; the
\* bytes written to the channel of a connection are bytes of that connection's
\* customer (behind its frame, on the broker) and of no other; a step of one
\* connection's task changes no other connection, and changes neither the DNS
\* cache nor the tenant context, the only state the tasks share
C18_Isolated ==
    /\ [](/\ \A c \in EConns :
                /\ IsPrefix(HostOut(c), FrameOf(c) \o AfterFirstRead(c))
                /\ FrameHeaders(HostOut(c)) <= 1
                /\ egress[c].data_plane_stream.open => egress[c].dial = "Ok"
                /\ HostOut(c) # <<>> => egress[c].dial = "Ok"
          /\ \A c \in IConns :
                /\ IsPrefix(ingress[c].enclave_stream.out, ingress[c].wire)
                /\ ingress[c].enclave_stream.open => ingress[c].dial = "Ok"
                /\ ingress[c].enclave_stream.out # <<>> => ingress[c].dial = "Ok")
    /\ [][/\ \A c \in EConns :
                /\ egress[c].dial # "" => egress'[c].dial = egress[c].dial
                /\ egress'[c] # egress[c] =>
                      /\ \A d \in EConns \ {c} : egress'[d] = egress[d]
                      /\ ingress' = ingress
                      /\ cache' = cache /\ env_context' = env_context
          /\ \A c \in IConns :
                /\ ingress[c].dial # "" => ingress'[c].dial = ingress[c].dial
                /\ ingress'[c] # ingress[c] =>
                      /\ \A d \in IConns \ {c} : ingress'[d] = ingress[d]
                      /\ egress' = egress
                      /\ cache' = cache /\ env_context' = env_context]_vars

\* two connections whose customers send different bytes are both being
\* spliced, each to its own address, and each has forwarded bytes behind its frame
C18_Witness ==
    /\ egress[1].pc = "Splicing" /\ egress[2].pc = "Splicing"
    /\ egress[1].wire # egress[2].wire
    /\ Len(HostOut(1)) > Len(FrameOf(1))
    /\ Len(HostOut(2)) > Len(FrameOf(2))

(***************************************************************************)
(* Properties of the course of an egress connection                        *)
(***************************************************************************)
\* the states of an egress connection, in their order
EgressStates == <<"Idle", "Accepted", "Peeking", "Parsed", "Authorized", "Dialed",
                  "Splicing", "Closed">>
StateIndex(pc) == CHOOSE k \in 1..Len(EgressStates) : EgressStates[k] = pc

\* C19: a step takes an egress connection from a state to the next one of
\* Accepted, Peeking, Parsed, Authorized, Dialed, Splicing, Closed, or from
\* any of them to Closed with an error; Closed is left by no step; and the
\* forwarder is dialed only for a host name that the cache has authorized
C19_StateOrder ==
    /\ [](\A c \in EConns :
             /\ egress[c].pc \in {EgressStates[k] : k \in 1..Len(EgressStates)}
             /\ egress[c].dial # "" =>
                   /\ egress[c].lookup /\ egress[c].cached_ips.some
                   /\ egress[c].remote_ip \in egress[c].cached_ips.val
                   /\ StateIndex(egress[c].pc) > StateIndex("Authorized")
             /\ egress[c].pc \in {"Dialed", "Splicing"} => egress[c].dial = "Ok"
             /\ egress[c].pc \in {"Authorized", "Dialed", "Splicing"} =>
                   egress[c].lookup /\ egress[c].remote_ip \in egress[c].cached_ips.val)
    /\ [][\A c \in EConns :
             LET from == egress[c].pc
                 to == egress'[c].pc
             IN  /\ \/ to = from
                    \/ StateIndex(to) = StateIndex(from) + 1
                    \/ to = "Closed" /\ from \notin {"Idle", "Closed"}
                 /\ to = "Closed" /\ from \notin {"Splicing", "Closed"} =>
                       egress'[c].result \notin {"", "Ok"}
                 /\ from = "Closed" => egress'[c] = egress[c]]_vars

\* a connection has gone through every state and was closed without error
C19_Witness ==
    \E c \in EConns :
        /\ egress[c].pc = "Closed" /\ egress[c].result = "Ok"
        /\ egress[c].lookup /\ egress[c].dial = "Ok"
        /\ egress[c].n > 0
        /\ IsPrefix(FrameOf(c), HostOut(c))

\* the customer bytes the host forwarder has received on connection c: what
\* follows the header of the frame
CustomerBytesAtHost(c) == Drop(HostOut(c), 1)

\* C20: the data of the frame are the n bytes of the first read, n at most
\* the buffer's 4096, as they were read; the splicer sends the bytes that
\* follow them: what the forwarder receives behind the frame's header is a
\* prefix of the customer's stream, and while the connection is spliced every
\* byte of the customer is either delivered or still to be read, once and in
\* order
C20_FrameData ==
    \A c \in EConns :
        /\ egress[c].n <= BufSize
        /\ egress[c].n = Len(egress[c].customer_data)
        /\ egress[c].customer_data = SubSeq(egress[c].wire, 1, egress[c].n)
        /\ IsPrefix(CustomerBytesAtHost(c), egress[c].wire)
        /\ IsPrefix(FrameOf(c), HostOut(c)) /\ HostOut(c) # <<>> =>
              /\ HostOut(c)[1] = Tok("frame", egress[c].remote_ip, egress[c].n)
              /\ SubSeq(HostOut(c), 2, egress[c].n + 1) = egress[c].customer_data
        /\ egress[c].pc = "Splicing" =>
              CustomerBytesAtHost(c) \o egress[c].external_stream.in = egress[c].wire

\* the first read took the ClientHello and a part of what follows it, and the
\* splicer has delivered the rest
C20_Witness ==
    \E c \in EConns :
        /\ egress[c].pc = "Splicing"
        /\ egress[c].n < Len(egress[c].wire)
        /\ egress[c].customer_data[egress[c].n][1] = "app"
        /\ CustomerBytesAtHost(c) = egress[c].wire

\* the first read of connection c returned less than the TLS record the
\* customer sends, possibly nothing
SplitClientHello(c) ==
    /\ egress[c].pc \notin {"Idle", "Accepted"}
    /\ parse_tls_plaintext(egress[c].wire).tag = "Ok"
    /\ parse_tls_plaintext(egress[c].wire).msg = "ch"
    /\ egress[c].n < egress[c].wire[1][3] + 1

\* the values of DNSError that handle_egress_connection can return
DNSErrors == {"Io", "TlsParseError", "NoHostnameFound", "MissingIP", "RpcError"}

\* C21: a connection whose first read returned only a part of the ClientHello
\* record, or nothing, is rejected with an error, without a lookup's result
\* being used, a dial or a frame, and without a further read of the customer's
\* bytes
C21_SingleRead ==
    \A c \in EConns :
        SplitClientHello(c) =>
            /\ egress[c].pc \in {"Peeking", "Closed"}
            /\ egress[c].dial = "" /\ HostOut(c) = <<>>
            /\ egress[c].customer_data = SubSeq(egress[c].wire, 1, egress[c].n)
            /\ egress[c].pc = "Peeking" =>
                  egress[c].customer_data \o egress[c].external_stream.in = egress[c].wire
            /\ egress[c].pc = "Closed" => egress[c].result \in DNSErrors

\* the SNI host names of the bytes `data`, in the order of the extensions
SniNamesOf(data) == SelectSeq(data, LAMBDA t : t[1] = "name")

\* C22: the host name looked up in the cache is the last SNI host name, in
\* the order of the extensions, that is valid UTF-8, and the answer used for
\* the connection is the cache's entry for that name
C22_LastSniWins ==
    /\ [](\A c \in EConns :
             egress[c].pc \in {"Parsed", "Authorized", "Dialed", "Splicing"} \/ egress[c].lookup =>
                 LET names == SniNamesOf(egress[c].customer_data) IN
                 egress[c].hostname = (IF names = <<>> THEN "" ELSE names[Len(names)][2]))
    /\ [][\A c \in EConns :
             ~egress[c].lookup /\ egress'[c].lookup =>
                 LET names == SniNamesOf(egress[c].customer_data)
                     last == IF names = <<>> THEN "" ELSE names[Len(names)][2]
                 IN  egress'[c].cached_ips = (IF last \in DOMAIN cache THEN cache[last] ELSE NoIps)]_vars

\* a ClientHello with two different SNI host names was authorized by the
\* entry of the second, the first having no entry
C22_Witness ==
    \E c \in EConns :
        LET names == SniNamesOf(egress[c].customer_data) IN
        /\ egress[c].pc = "Authorized"
        /\ Len(names) = 2 /\ names[1][2] # names[2][2]
        /\ egress[c].hostname = names[2][2]
        /\ names[1][2] \in Hostnames /\ ~cache[names[1][2]].some

\* C23: a lookup that returns an entry with an empty answer set ends the
\* connection like a miss, with MissingIP, no ip chosen and no dial; every
\* frame carries an ip of a non-empty answer set
C23_EmptyAnswerSet ==
    \A c \in EConns :
        /\ egress[c].lookup /\ egress[c].cached_ips.some /\ egress[c].cached_ips.val = {} =>
              /\ egress[c].pc = "Closed" /\ egress[c].result = "MissingIP"
              /\ egress[c].remote_ip = ""
              /\ egress[c].dial = "" /\ HostOut(c) = <<>>
        /\ HostOut(c) # <<>> =>
              /\ egress[c].cached_ips.some /\ egress[c].cached_ips.val # {}
              /\ HostOut(c)[1][1] = "frame"
              /\ HostOut(c)[1][2] \in egress[c].cached_ips.val

\* the forwarder has stored an empty answer set for a host name and a
\* connection to that host name was ended with MissingIP
C23_Witness ==
    \E c \in EConns :
        /\ egress[c].lookup
        /\ egress[c].hostname \in Hostnames
        /\ egress[c].cached_ips.some /\ egress[c].cached_ips.val = {}
        /\ egress[c].pc = "Closed" /\ egress[c].result = "MissingIP"

====
